---- MODULE Spec2Model ----
(***************************************************************************)
(* A model of the supereeg Brain object (src/superEEG/brain.py) and of the *)
(* example-data loader (src/supereeg/load.py).                             *)
(*                                                                         *)
(* Three specifications share the variables:                               *)
(*   SpecNii   - Brain.to_nii on a constructed Brain                       *)
(*   SpecBrain - Brain.__init__ followed by Brain.plot_data                *)
(*   SpecLoad  - load() of the example datasets through the local cache    *)
(*                                                                         *)
(* Numbers are exact: sample values and coordinates are integers, the      *)
(* quotients numpy computes are kept as reduced fractions <<n, d>>, with   *)
(* <<0, 0>> for nan and <<1, 0>>, <<-1, 0>> for +inf, -inf.                *)
(***************************************************************************)
EXTENDS Integers, Sequences, FiniteSets, TLC

VARIABLES
    \* --- the Brain object (self) ---
    bo_data,        \* self.data: samples x electrodes, a sequence of rows
    bo_locs,        \* self.locs: one <<x, y, z>> per electrode
    sessions,       \* self.sessions: one label per sample
    sample_rate,    \* self.sample_rate
    n_secs,         \* self.n_secs
    n_elecs,        \* self.n_elecs
    n_sessions,     \* self.n_sessions
    kurtosis,       \* self.kurtosis: one value per electrode
    warned,         \* the warnings issued by __init__
    status,         \* how __init__ ended: "none", "ok" or the exception raised
    args,           \* the arguments __init__ was called with
    plot_call,      \* the arguments of the last plot_data call
    thresh_bool,    \* plot_data's exclusion mask
    Ycols,          \* the columns plot_data keeps
    \* --- Brain.to_nii ---
    template,       \* the template image on disk: shape and affine
    locs,           \* to_nii's local locs: the mapped indices
    shape,          \* to_nii's local shape
    data,           \* to_nii's accumulation grid
    counts,         \* to_nii's count grid
    nifti,          \* the image of the last call that returned
    err,            \* how the last to_nii call ended
    calls,          \* number of to_nii calls made
    returned,       \* the images returned so far, in order
    saved,          \* the image file written at filepath, if any
    \* --- load.py ---
    fs,             \* the files under ~/supereeg_data, as <<name, extension>>
    datadir_exists, \* whether ~/supereeg_data exists
    downloads,      \* number of downloads performed
    loads,          \* number of load() calls made
    last            \* what the last load() did

brainVars == <<sessions, sample_rate, n_secs, n_elecs, n_sessions, kurtosis,
               warned, status, args, plot_call, thresh_bool, Ycols>>
niiVars == <<template, locs, shape, data, counts, nifti, err, calls, returned, saved>>
loadVars == <<fs, datadir_exists, downloads, loads, last>>
vars == <<bo_data, bo_locs, brainVars, niiVars, loadVars>>

(***************************************************************************)
(* Bounds of the model.                                                    *)
(***************************************************************************)
MaxChan == 2      \* electrodes of a Brain given to to_nii
MaxTime == 2      \* time samples of a Brain given to to_nii
MaxCalls == 2     \* to_nii calls in one behaviour
MaxSamples == 3   \* time samples of the data given to Brain()
MaxElecs == 2     \* electrodes of the data given to Brain()
MaxLoads == 3     \* load() calls in one behaviour

\* sample values of the first time sample; sample t is t times the first
Values == {-1, 2}

\* electrode locations (MNI coordinates)
LocSet == { <<0, 0, 0>>, <<1, 0, 0>>, <<1, 1, 1>>, <<-1, 0, 0>>, <<3, 1, 0>>, <<-3, 0, 1>> }

(***************************************************************************)
(* Arithmetic helpers.                                                     *)
(***************************************************************************)
Abs(x) == IF x < 0 THEN -x ELSE x

Max(a, b) == IF a >= b THEN a ELSE b

RECURSIVE Gcd(_, _)
Gcd(a, b) == IF b = 0 THEN a ELSE Gcd(b, a % b)

NaN == <<0, 0>>

Zero == <<0, 1>>

\* a / b as numpy's float division computes it, exactly
Frac(a, b) ==
    IF b = 0 THEN (IF a = 0 THEN NaN ELSE IF a > 0 THEN <<1, 0>> ELSE <<-1, 0>>)
    ELSE LET g == Gcd(Abs(a), Abs(b))
             s == IF b < 0 THEN -1 ELSE 1
         IN <<(s * a) \div g, (s * b) \div g>>

IsNaN(q) == q = NaN

(***************************************************************************)
(* Templates: the shape and the 4x4 affine of the image nib.load returns.  *)
(***************************************************************************)
Identity4 == << <<1, 0, 0, 0>>, <<0, 1, 0, 0>>, <<0, 0, 1, 0>>, <<0, 0, 0, 1>> >>

Templates ==
    { [shape |-> <<2, 2, 2>>, affine |-> Identity4],
      [shape |-> <<3, 2, 2>>,
       affine |-> << <<2, 0, 0, 0>>, <<0, 2, 0, -2>>, <<0, 0, 2, 0>>, <<0, 0, 0, 1>> >>],
      [shape |-> <<2, 3, 2>>,
       affine |-> << <<-1, 0, 0, 1>>, <<1, 1, 0, 0>>, <<0, 0, 1, 0>>, <<0, 0, 0, 1>> >>] }

\* the concrete scenario: three electrodes, two of them at the same place,
\* the third outside a 5x5x5 identity template
ScenarioTemplate == [shape |-> <<5, 5, 5>>, affine |-> Identity4]

ScenarioLocs == << <<0, 0, 0>>, <<0, 0, 0>>, <<10, 10, 10>> >>

ScenarioData == << <<1, 2, 3>> >>

(***************************************************************************)
(* Brain.to_nii, coordinate mapping (line 342).                            *)
(***************************************************************************)
\* S[:3, 3]
Translation(S) == <<S[1][4], S[2][4], S[3][4]>>

\* S[0:3, 0:3]
Linear(S) == [r \in 1..3 |-> [c \in 1..3 |-> S[r][c]]]

Det3(A) ==
      A[1][1] * (A[2][2] * A[3][3] - A[2][3] * A[3][2])
    - A[1][2] * (A[2][1] * A[3][3] - A[2][3] * A[3][1])
    + A[1][3] * (A[2][1] * A[3][2] - A[2][2] * A[3][1])

\* the adjugate: np.linalg.inv(A) = Adj3(A) / Det3(A)
Adj3(A) ==
    << << A[2][2] * A[3][3] - A[2][3] * A[3][2],
          A[1][3] * A[3][2] - A[1][2] * A[3][3],
          A[1][2] * A[2][3] - A[1][3] * A[2][2] >>,
       << A[2][3] * A[3][1] - A[2][1] * A[3][3],
          A[1][1] * A[3][3] - A[1][3] * A[3][1],
          A[1][3] * A[2][1] - A[1][1] * A[2][3] >>,
       << A[2][1] * A[3][2] - A[2][2] * A[3][1],
          A[1][2] * A[3][1] - A[1][1] * A[3][2],
          A[1][1] * A[2][2] - A[1][2] * A[2][1] >> >>

\* np.dot(R - S[:3, 3], inv(S[0:3, 0:3])), row r, as numerators over Det3
TransformedNum(r, S) ==
    LET d == [i \in 1..3 |-> r[i] - Translation(S)[i]]
        adj == Adj3(Linear(S))
    IN [k \in 1..3 |-> d[1] * adj[1][k] + d[2] * adj[2][k] + d[3] * adj[3][k]]

\* a mutant of IntCast: floor instead of truncation
FloorCast(n, d) == IF d < 0 THEN (-n) \div (-d) ELSE n \div d

\* np.array(n / d, dtype='int'): the float is truncated toward zero
IntCast(n, d) ==
    LET q == Abs(n) \div Abs(d)
    IN IF (n < 0) # (d < 0) THEN -q ELSE q

MapLocs(R, S) ==
    [j \in 1..Len(R) |->
        [k \in 1..3 |-> IntCast(TransformedNum(R[j], S)[k], Det3(Linear(S)))]]

(***************************************************************************)
(* Brain.to_nii, grid sizing and accumulation (lines 344-355).             *)
(***************************************************************************)
\* np.max(locs, axis=0)[k]
ColMax(lc, k) == CHOOSE m \in {lc[j][k] : j \in 1..Len(lc)} :
                    \A j \in 1..Len(lc) : lc[j][k] <= m

\* a mutant of GridShape: the template's shape is left out
ShapeOfLocsOnly(lc, imgshape) == [k \in 1..3 |-> ColMax(lc, k) + 1]

\* np.max(np.vstack([np.max(locs, axis=0) + 1, img.shape[0:3]]), axis=0)
GridShape(lc, imgshape) == [k \in 1..3 |-> Max(ColMax(lc, k) + 1, imgshape[k])]

Cells(shp, nT) ==
    { <<x, y, z, t>> : x \in 0..(shp[1] - 1), y \in 0..(shp[2] - 1),
                       z \in 0..(shp[3] - 1), t \in 0..(nT - 1) }

\* a mutant of AllocGrid: the grid of the previous call is used again
ReuseGrid(shp, nT) ==
    IF calls > 0 /\ DOMAIN data = Cells(shp, nT) THEN data
    ELSE [c \in Cells(shp, nT) |-> 0]

\* np.zeros(tuple(list(shape) + [Y.shape[0]]))
AllocGrid(shp, nT) == [c \in Cells(shp, nT) |-> 0]

\* np.zeros(data.shape)
AllocCounts(d) == [c \in DOMAIN d |-> 0]

\* numpy indexing on an axis of length n: 0..n-1 as is, -n..-1 from the end,
\* anything else raises IndexError
Addressable(idx, shp) == \A k \in 1..3 : -shp[k] <= idx[k] /\ idx[k] < shp[k]

Wrap(a, n) == IF a < 0 THEN a + n ELSE a

Cell(idx, shp, i) == <<Wrap(idx[1], shp[1]), Wrap(idx[2], shp[2]), Wrap(idx[3], shp[3]), i>>

\* data[...] += Y[i, j]
Accumulate(grid, c, v) == [grid EXCEPT ![c] = @ + v]

\* the double loop of lines 349-352 from iteration k on; g.ok turns FALSE at
\* the iteration that raises IndexError
RECURSIVE Fill(_, _, _, _, _)
Fill(g, Y, lc, shp, k) ==
    IF k = Len(Y) * Len(lc) \/ ~g.ok THEN g
    ELSE LET i == k \div Len(lc)
             j == k % Len(lc)
         IN IF ~Addressable(lc[j + 1], shp) THEN [g EXCEPT !.ok = FALSE]
            ELSE LET c == Cell(lc[j + 1], shp, i)
                 IN Fill([data |-> Accumulate(g.data, c, Y[i + 1][j + 1]),
                          counts |-> [g.counts EXCEPT ![c] = @ + 1],
                          ok |-> TRUE], Y, lc, shp, k + 1)

\* np.divide(data, counts)
Divide(d, n) == [c \in DOMAIN d |-> Frac(d[c], n[c])]

\* a mutant of MaskNaN: nan is left in place
NoMask(q) == q

\* data[np.isnan(data)] = 0
MaskNaN(q) == [c \in DOMAIN q |-> IF IsNaN(q[c]) THEN Zero ELSE q[c]]

FilePaths == {"None", "out.nii"}

ToNii(filepath) ==
    /\ calls < MaxCalls
    /\ \E l \in {MapLocs(bo_locs, template.affine)} :
       \E shp \in {GridShape(l, template.shape)} :
       \E d0 \in {AllocGrid(shp, Len(bo_data))} :
       \E g \in {Fill([data |-> d0, counts |-> AllocCounts(d0), ok |-> TRUE],
                      bo_data, l, shp, 0)} :
          /\ locs' = l
          /\ shape' = shp
          /\ data' = g.data
          /\ counts' = g.counts
          /\ IF g.ok
             THEN \E img \in {[data |-> MaskNaN(Divide(g.data, g.counts)),
                               affine |-> template.affine]} :
                  /\ nifti' = img
                  /\ err' = "ok"
                  /\ returned' = Append(returned, img)
                  /\ saved' = IF filepath # "None" THEN <<img>> ELSE saved
             ELSE /\ err' = "IndexError"
                  /\ UNCHANGED <<nifti, returned, saved>>
    /\ calls' = calls + 1
    /\ UNCHANGED <<bo_data, bo_locs, template, brainVars, loadVars>>

(***************************************************************************)
(* SpecNii: to_nii on a Brain already constructed.                         *)
(***************************************************************************)
\* samples x electrodes: sample t is t times the first sample
DataSet(C, T) == { [t \in 1..T |-> [j \in 1..C |-> row[j] * t]] : row \in [1..C -> Values] }

BrainIdle ==
    /\ sessions = <<>> /\ sample_rate = <<>> /\ n_secs = <<>> /\ n_elecs = 0
    /\ n_sessions = 0 /\ kurtosis = <<>> /\ warned = {} /\ status = "none"
    /\ args = <<>> /\ plot_call = [threshold |-> 0, filtered |-> FALSE] /\ thresh_bool = <<>> /\ Ycols = {}

NiiIdle ==
    /\ locs = <<>> /\ shape = <<0, 0, 0>> /\ data = <<>> /\ counts = <<>>
    /\ nifti = <<>> /\ err = "none" /\ calls = 0 /\ returned = <<>> /\ saved = <<>>

LoadIdle ==
    /\ fs = {} /\ datadir_exists = FALSE /\ downloads = 0 /\ loads = 0 /\ last = <<>>

\* A Brain holding data and locations, and a template on disk.  The fields
\* to_nii does not read stay at their idle values.
InitNii ==
    /\ \/ \E C \in 1..MaxChan, T \in 1..MaxTime :
             /\ bo_locs \in [1..C -> LocSet]
             /\ bo_data \in DataSet(C, T)
             /\ template \in Templates
       \/ /\ bo_locs = ScenarioLocs
          /\ bo_data = ScenarioData
          /\ template = ScenarioTemplate
    /\ BrainIdle /\ NiiIdle /\ LoadIdle

NextNii == \E filepath \in FilePaths : ToNii(filepath)

SpecNii == InitNii /\ [][NextNii]_vars

(***************************************************************************)
(* Properties of Brain.to_nii, checked under SpecNii.                      *)
(***************************************************************************)
\* the electrodes whose mapped index is the cell <<x, y, z>>
MappedTo(x, y, z) == { j \in 1..Len(locs) : locs[j] = <<x, y, z>> }

\* the sum of the values at time t (from 0) of the electrodes in E
RECURSIVE SumAt(_, _)
SumAt(E, t) ==
    IF E = {} THEN 0
    ELSE LET j == CHOOSE e \in E : TRUE
         IN bo_data[t + 1][j] + SumAt(E \ {j}, t)

\* the electrodes whose value the loop adds to cell c: numpy counts a negative
\* index from the end of the axis
AddressedBy(c) ==
    { j \in 1..Len(locs) : Addressable(locs[j], shape) /\ Cell(locs[j], shape, c[4]) = c }

\* The accumulation itself averages: every cell some electrode's value was
\* added to holds the sum of the values added divided by their number.
AverageOfAddressingChannels ==
    (calls > 0 /\ err = "ok") =>
        \A c \in DOMAIN nifti.data :
            LET E == AddressedBy(c)
            IN /\ counts[c] = Cardinality(E)
               /\ E # {} => nifti.data[c] = Frac(SumAt(E, c[4]), Cardinality(E))

\* C1: in the returned volume, every cell and time step to which at least
\* one channel is mapped holds the sum of the values of the channels mapped
\* to that cell divided by their number.
C1_AverageOfMappedChannels ==
    (calls > 0 /\ err = "ok") =>
        \A c \in DOMAIN nifti.data :
            LET E == MappedTo(c[1], c[2], c[3])
            IN E # {} => nifti.data[c] = Frac(SumAt(E, c[4]), Cardinality(E))

\* C2: to_nii never ends with an indexing failure, and every channel's mapped
\* index addresses a cell of the grid: 0 <= index < grid shape on each axis.
C2_MappedIndexInGrid ==
    calls > 0 =>
        /\ err = "ok"
        /\ \A j \in 1..Len(locs) : \A k \in 1..3 :
               0 <= locs[j][k] /\ locs[j][k] < shape[k]

IsScenario ==
    bo_locs = ScenarioLocs /\ bo_data = ScenarioData /\ template = ScenarioTemplate

\* C5: every cell and time step of the returned volume whose count is 0 holds
\* exactly 0, the division by a zero count does not make the call fail, and
\* in the concrete scenario cell (0,0,0,0) is 3/2, cell (10,10,10,0) is 3 and
\* every other cell is 0.
C5_EmptyCellsAreZero ==
    calls > 0 =>
        /\ err = "ok" =>
              \A c \in DOMAIN nifti.data : counts[c] = 0 => nifti.data[c] = Zero
        /\ (\A j \in 1..Len(locs) : Addressable(locs[j], shape)) => err = "ok"
        /\ IsScenario =>
              /\ err = "ok"
              /\ nifti.data[<<0, 0, 0, 0>>] = <<3, 2>>
              /\ nifti.data[<<10, 10, 10, 0>>] = <<3, 1>>
              /\ \A c \in DOMAIN nifti.data :
                     c \notin {<<0, 0, 0, 0>>, <<10, 10, 10, 0>>} => nifti.data[c] = Zero

C5_Witness ==
    /\ IsScenario /\ err = "ok"
    /\ counts[<<1, 1, 1, 0>>] = 0 /\ nifti.data[<<1, 1, 1, 0>>] = Zero
    /\ nifti.data[<<0, 0, 0, 0>>] = <<3, 2>>

\* C6: the returned volume's size on each spatial axis is the maximum of the
\* template's size and one plus the largest mapped index on that axis, and
\* its time axis has as many slices as the sample matrix has time samples.
C6_GridShape ==
    (calls > 0 /\ err = "ok") =>
        /\ \A k \in 1..3 :
              /\ shape[k] >= template.shape[k]
              /\ \A j \in 1..Len(locs) : shape[k] >= locs[j][k] + 1
              /\ \/ shape[k] = template.shape[k]
                 \/ \E j \in 1..Len(locs) : shape[k] = locs[j][k] + 1
        /\ DOMAIN nifti.data = Cells(shape, Len(bo_data))

C6_Witness ==
    /\ calls > 0 /\ err = "ok" /\ Len(bo_data) = 2
    /\ \E k \in 1..3 : shape[k] > template.shape[k]
    /\ \E k \in 1..3 : \A j \in 1..Len(locs) : shape[k] > locs[j][k] + 1

\* C8: the mapping returns one integer triple per channel, and each index is
\* the transformed coordinate (location - T) * inverse(R) truncated toward
\* zero: for a coordinate c >= 0 the index is floor(c), for c < 0 it is
\* -floor(-c), so every c strictly between -1 and 1 maps to 0.
C8_TruncatedTowardZero ==
    calls > 0 =>
        /\ Len(locs) = Len(bo_locs)
        /\ \A j \in 1..Len(locs) :
              /\ DOMAIN locs[j] = 1..3
              /\ LET A == Linear(template.affine)
                     T == Translation(template.affine)
                     n == TransformedNum(bo_locs[j], template.affine)
                     d == Det3(A)
                 IN \A k \in 1..3 :
                       LET nn == IF d < 0 THEN -n[k] ELSE n[k]
                           dd == Abs(d)
                           idx == locs[j][k]
                       IN \* n / d is the transformed coordinate: (n / d) * R = location - T
                          /\ n[1] * A[1][k] + n[2] * A[2][k] + n[3] * A[3][k]
                                = d * (bo_locs[j][k] - T[k])
                          /\ nn >= 0 => (idx >= 0 /\ idx * dd <= nn /\ nn < (idx + 1) * dd)
                          /\ nn < 0 => (idx <= 0 /\ (idx - 1) * dd < nn /\ nn <= idx * dd)

C8_Witness ==
    /\ calls > 0
    /\ \E j \in 1..Len(locs) : \E k \in 1..3 :
          LET n == TransformedNum(bo_locs[j], template.affine)[k]
              d == Det3(Linear(template.affine))
          IN n * d < 0 /\ Abs(n) % Abs(d) # 0 /\ Abs(n) > Abs(d) /\ locs[j][k] < 0

\* C9: every call of to_nii on the same container with the same template
\* returns the same volume: same cells, same value in every cell, same affine.
C9_Idempotent ==
    /\ \A a, b \in 1..Len(returned) : returned[a] = returned[b]
    /\ (calls > 0 /\ err = "ok") => nifti = returned[Len(returned)]

C9_Witness ==
    /\ calls = 2 /\ Len(returned) = 2
    /\ \E c \in DOMAIN returned[2].data : returned[2].data[c] # Zero
    /\ \E c \in DOMAIN returned[2].data : returned[2].data[c] = Zero

(***************************************************************************)
(* Brain.__init__ (lines 86-146).                                          *)
(***************************************************************************)
\* the time series an electrode's column of the data is drawn from: constant,
\* a single spike at the last sample, alternating
ColumnSet(T) ==
    { [i \in 1..T |-> 0], [i \in 1..T |-> IF i = T THEN 1 ELSE 0], [i \in 1..T |-> i % 2] }

\* samples x electrodes, from the electrodes' columns
DataArgs(T, C) == { [i \in 1..T |-> [j \in 1..C |-> cols[j][i]]] : cols \in [1..C -> ColumnSet(T)] }

SessionLabels == {1, 2}

None == [tag |-> "None", val |-> <<>>]

\* the forms the sessions argument takes: None, one label for all samples
\* (an int or a str), or an array with one label per sample
SessionArgs(T) ==
    {None} \cup { [tag |-> "scalar", val |-> <<s>>] : s \in SessionLabels }
           \cup { [tag |-> "array", val |-> a] : a \in [1..T -> SessionLabels] }

\* the forms the sample_rate argument takes.  "list" is a list of numbers,
\* "list_ndarray" the list [np.array([[r1, ...]])], "int" and "float" a
\* Python number; "str" (such as '512'), "tuple" (such as (512, 256)) and
\* "npfloat" (np.float64(512)) are formats the constructor does not recognize
RateLists == { <<>>, <<2>>, <<2, 4>>, <<4, 2, 2>> }

SampleRateArgs ==
    {None} \cup { [tag |-> "list", val |-> l] : l \in RateLists }
           \cup { [tag |-> "list_ndarray", val |-> l] : l \in {<<2, 4>>} }
           \cup { [tag |-> t, val |-> <<2>>] : t \in {"int", "float", "str", "npfloat"} }
           \cup { [tag |-> "tuple", val |-> <<2, 4>>] }

\* pd.Series built from the sessions argument (lines 102-108)
SessionSeries(arg, T) ==
    IF arg.tag = "scalar" THEN [i \in 1..T |-> arg.val[1]]
    ELSE IF arg.tag = "None" THEN [i \in 1..T |-> 1]
    ELSE arg.val

\* len(self.sessions.unique())
NUnique(ser) == Cardinality({ ser[i] : i \in 1..Len(ser) })

\* a mutant of RateCountOk: the assert is left out
NoRateCheck(rates, ser) == TRUE

\* the assert of line 116
RateCountOk(rates, ser) == Len(rates) = NUnique(ser)

\* self.data.shape[0] / np.array(sample_rate), element by element (the true
\* quotient; what matters below is whether n_secs is set at all)
Seconds(T, rates) == [i \in 1..Len(rates) |-> Frac(T, rates[i])]

\* column j of the data, as a sequence over time
Column(d, j) == [i \in 1..Len(d) |-> d[i][j]]

RECURSIVE SumPow(_, _, _, _)
\* sum over the first n entries of (Len(x) * x[i] - total) ^ p, p in {2, 4}
SumPow(x, total, p, n) ==
    IF n = 0 THEN 0
    ELSE LET dev == Len(x) * x[n] - total
             d2 == dev * dev
         IN (IF p = 2 THEN d2 ELSE d2 * d2) + SumPow(x, total, p, n - 1)

RECURSIVE SumSeq(_, _)
SumSeq(x, n) == IF n = 0 THEN 0 ELSE x[n] + SumSeq(x, n - 1)

\* the fourth standardized moment m4 / m2^2 of a time series; nan when the
\* variance is zero.  With dev = n*x - sum(x): m4/m2^2 = n * sum dev^4 / (sum dev^2)^2
Kurt(x) ==
    LET n == Len(x)
        total == SumSeq(x, n)
        s2 == SumPow(x, total, 2, n)
        s4 == SumPow(x, total, 4, n)
    IN IF s2 = 0 THEN NaN ELSE Frac(n * s4, s2 * s2)

\* kurt_vals(self): one value per electrode
KurtVals(d) == [j \in 1..Len(d[1]) |-> Kurt(Column(d, j))]

NoRateWarning == "No sample rate given.  Number of seconds cant be computed"

FormatWarning == "Format of sample rate not recognized. Number of seconds cannot be computed.Setting sample rate to None"

\* the exception raised by the constructor, "ok" when there is none
InitOutcome(a, ser) ==
    LET sr == a.sample_rate
    IN IF sr.tag \in {"list", "list_ndarray"} /\ Len(sr.val) = 0 THEN "IndexError"
       ELSE IF sr.tag \in {"list", "list_ndarray"} /\ ~RateCountOk(sr.val, ser)
            THEN "AssertionError"
       \* line 131: a number cannot be divided by an array of str
       ELSE IF sr.tag = "str" THEN "TypeError"
       ELSE "ok"

\* the arguments Brain() is called with
BrainArgs(T, C) ==
    { [data |-> d, locs |-> [j \in 1..C |-> <<0, 0, 0>>], sessions |-> s, sample_rate |-> r] :
        d \in DataArgs(T, C), s \in SessionArgs(T), r \in SampleRateArgs }

BrainInit ==
    /\ status = "none"
    /\ \E T \in 1..MaxSamples, C \in 1..MaxElecs :
       \E a \in BrainArgs(T, C) :
       \E ser \in {SessionSeries(a.sessions, Len(a.data))} :
       \E out \in {InitOutcome(a, ser)} :
          LET sr == a.sample_rate
          IN /\ args' = a
             /\ status' = out
             /\ warned' = IF sr.tag = "None" THEN {NoRateWarning}
                          ELSE IF sr.tag \in {"str", "tuple", "npfloat"} THEN {FormatWarning}
                          ELSE {}
             /\ IF out = "ok"
                THEN /\ bo_data' = a.data
                     /\ bo_locs' = a.locs
                     /\ sessions' = ser
                     /\ sample_rate' =
                           IF sr.tag \in {"list", "list_ndarray", "int", "float"}
                           THEN [tag |-> "list", val |-> sr.val]
                           ELSE None
                     /\ n_secs' =
                           IF sr.tag = "None" THEN None
                           ELSE [tag |-> "array", val |-> Seconds(T, sr.val)]
                     /\ n_elecs' = Len(a.data[1])
                     /\ n_sessions' = NUnique(ser)
                     /\ kurtosis' = KurtVals(a.data)
                ELSE UNCHANGED <<bo_data, bo_locs, sessions, sample_rate, n_secs,
                                 n_elecs, n_sessions, kurtosis>>
    /\ UNCHANGED <<plot_call, thresh_bool, Ycols, niiVars, loadVars>>

(***************************************************************************)
(* Brain.plot_data (lines 179-210): the channel selection.                 *)
(***************************************************************************)
Thresholds == {1, 2}

\* q > thr for a float q: False for nan, True for +inf
Greater(q, thr) ==
    IF IsNaN(q) THEN FALSE
    ELSE IF q[2] = 0 THEN q[1] > 0
    ELSE q[1] > thr * q[2]

PlotData(threshold, filtered) ==
    /\ status = "ok"
    /\ plot_call' = [threshold |-> threshold, filtered |-> filtered]
    /\ IF filtered
       THEN \E tb \in {[j \in 1..n_elecs |-> Greater(kurtosis[j], threshold)]} :
               /\ thresh_bool' = tb
               /\ Ycols' = { j \in 1..n_elecs : ~tb[j] }
       ELSE /\ Ycols' = 1..n_elecs
            /\ UNCHANGED thresh_bool
    /\ UNCHANGED <<bo_data, bo_locs, sessions, sample_rate, n_secs, n_elecs,
                   n_sessions, kurtosis, warned, status, args, niiVars, loadVars>>

(***************************************************************************)
(* SpecBrain: Brain(...) and then plot_data.                               *)
(***************************************************************************)
InitBrain ==
    /\ bo_data = <<>> /\ bo_locs = <<>> /\ template = ScenarioTemplate
    /\ BrainIdle /\ NiiIdle /\ LoadIdle

NextBrain ==
    \/ BrainInit
    \/ \E threshold \in Thresholds, filtered \in BOOLEAN : PlotData(threshold, filtered)

SpecBrain == InitBrain /\ [][NextBrain]_vars

(***************************************************************************)
(* Properties of Brain.__init__ and Brain.plot_data, under SpecBrain.      *)
(***************************************************************************)
\* the number of sample rates the caller supplied
NumRates(a) == Len(a.sample_rate.val)

\* the number of distinct session labels of the arguments
NumSessions(a) ==
    IF a.sessions.tag = "array"
    THEN Cardinality({ a.sessions.val[i] : i \in 1..Len(a.sessions.val) })
    ELSE 1

C4_MaskExcludesNonFinite ==
    (status = "ok" /\ plot_call.filtered) =>
        /\ Len(thresh_bool) = n_elecs
        /\ \A j \in 1..n_elecs :
              thresh_bool[j] <=>
                  \/ kurtosis[j][2] = 0
                  \/ (kurtosis[j][2] > 0 /\ kurtosis[j][1] > plot_call.threshold * kurtosis[j][2])

\* C7: with the sample rate missing (None) or in an unrecognized format,
\* construction never fails: it completes, a warning is issued, the stored
\* sample rate is None and n_secs is None.
C7_UnrecognizedRateIsNonFatal ==
    (status # "none" /\ args.sample_rate.tag \in {"None", "str", "tuple", "npfloat"}) =>
        /\ status = "ok"
        /\ warned # {}
        /\ sample_rate = None
        /\ n_secs = None

(***************************************************************************)
(* load.py: the example datasets and the local cache.                      *)
(***************************************************************************)
\* datadict (lines 17-24): name -> <<google file id, extension>>
datadict ==
    [ example_data |-> <<"1kijSKt-QLEZ1O3J5Pk-8aByn33bPCAFl", "bo">>,
      example_model |-> <<"1l4s7mE0KbPMmIcIA9JQzSZHCA8LWFq1I", "mo">>,
      example_nifti |-> <<"1a8wptBaMIFEl4j8TFhlTQVUAbyC0sN4p", "nii">>,
      example_filter |-> <<"1eHcYg1idIK8y2LMLK_tqSxB7jI_l7OsL", "bo">>,
      std |-> <<"1P-WcEBVYnoMQAYhvSCf1BBMIDMe9VZIM", "nii">>,
      gray |-> <<"1a8wptBaMIFEl4j8TFhlTQVUAbyC0sN4p", "nii">> ]

\* the names load() is called with: three example datasets, one of each
\* file type, and paths of the caller's own
ExampleNames == {"example_data", "example_model", "gray"}

OtherPaths == { <<"my", "bo">>, <<"my", "mo">>, <<"my", "nii">>, <<"my", "txt">> }

ReturnTypes == {"None", "bo", "mo", "nii"}

\* os.path.join(homedir, 'supereeg_data', fname): no extension
FullPath(fname) == <<fname, "">>

\* the file _download writes and _load_from_cache reads: fullpath + '.' + ext
CachePath(fname, ext) == <<fname, ext>>

\* the test of line 119: os.path.exists(fullpath)
ExistsPath(fname) == FullPath(fname) \in fs

\* the object a file of type ftype loads as
Loaded(ftype) ==
    IF ftype = "bo" THEN "Brain"
    ELSE IF ftype = "mo" THEN "Model"
    ELSE IF ftype = "nii" THEN "Nifti"
    ELSE "ValueError"

\* _convert (lines 94-112)
Convert(obj, return_type) ==
    IF return_type = "None" \/ obj \in {"ValueError", "IOError"} THEN obj
    ELSE Loaded(return_type)

\* load(fname) for the name of an example dataset
LoadExample(fname, return_type) ==
    /\ loads < MaxLoads
    /\ loads' = loads + 1
    /\ datadir_exists' = TRUE
    /\ LET ext == datadict[fname][2]
       IN IF ~ExistsPath(fname)
          THEN /\ downloads' = downloads + 1
               /\ fs' = fs \cup {CachePath(fname, ext)}
               /\ last' = [name |-> fname, downloaded |-> TRUE,
                           result |-> Convert(Loaded(ext), return_type)]
          ELSE /\ UNCHANGED <<downloads, fs>>
               /\ last' = [name |-> fname, downloaded |-> FALSE,
                           result |-> IF CachePath(fname, ext) \in fs
                                      THEN Convert(Loaded(ext), return_type)
                                      ELSE "IOError"]
    /\ UNCHANGED <<bo_data, bo_locs, brainVars, niiVars>>

\* load(fname) for a path: the extension decides (lines 148-161)
LoadPath(path, return_type) ==
    /\ loads < MaxLoads
    /\ loads' = loads + 1
    /\ last' = [name |-> path[1], downloaded |-> FALSE,
                result |-> Convert(Loaded(path[2]), return_type)]
    /\ UNCHANGED <<fs, datadir_exists, downloads, bo_data, bo_locs, brainVars, niiVars>>

\* the user removes a file of the cache directory
RemoveFile ==
    /\ \E f \in fs : fs' = fs \ {f}
    /\ UNCHANGED <<datadir_exists, downloads, loads, last, bo_data, bo_locs,
                   brainVars, niiVars>>

\* the user puts a file named as a dataset, without extension, in the directory
PutFile ==
    /\ datadir_exists
    /\ \E fname \in ExampleNames : fs' = fs \cup {FullPath(fname)}
    /\ UNCHANGED <<datadir_exists, downloads, loads, last, bo_data, bo_locs,
                   brainVars, niiVars>>

InitLoad ==
    /\ bo_data = <<>> /\ bo_locs = <<>> /\ template = ScenarioTemplate
    /\ BrainIdle /\ NiiIdle /\ LoadIdle

NextLoad ==
    \/ \E fname \in ExampleNames, rt \in ReturnTypes : LoadExample(fname, rt)
    \/ \E path \in OtherPaths, rt \in ReturnTypes : LoadPath(path, rt)
    \/ RemoveFile
    \/ PutFile

SpecLoad == InitLoad /\ [][NextLoad]_vars

\* C10: once load(name) has downloaded the file into the cache and the cached
\* file is still there, a later load(name) performs no download.
C10_CachedFileIsNotDownloadedAgain ==
    [][ \A fname \in ExampleNames :
          ( /\ CachePath(fname, datadict[fname][2]) \in fs
            /\ loads' = loads + 1
            /\ last'.name = fname )
          => downloads' = downloads ]_vars

====
